---- MODULE Spec2Model ----
(***************************************************************************)
(* Model of pkg/cmd/pr/pr.go of jx-updatebot: Options.Run, Options.Validate, *)
(* Options.ApplyChanges and Options.FindURLs, together with the             *)
(* collaborators Run drives (version file, environment, URL discovery, the  *)
(* change appliers and the pull-request reconciler behind Create).          *)
(*                                                                          *)
(* Go strings that the code splits, trims or concatenates are sequences of  *)
(* one-character strings; the empty Go string is the empty sequence.        *)
(***************************************************************************)
EXTENDS Integers, Sequences, FiniteSets, TLC

VARIABLES
    pc,                \* position of Run
    err,               \* error Run returns ("none" while running or on success)
    Version,           \* o.Version
    NoVersion,         \* o.NoVersion
    PullRequestTitle,  \* o.PullRequestTitle
    CommitTitle,       \* o.CommitTitle
    PullRequestBody,   \* o.PullRequestBody
    CommitMessage,     \* o.CommitMessage
    AutoMerge,         \* o.AutoMerge
    Labels,            \* o.Labels
    PullRequestFilter, \* o.PullRequestFilter (isNil, or its Labels)
    BranchName,        \* o.BranchName
    Fork,              \* o.Fork
    GitToken,          \* o.ScmClientFactory.GitToken
    GitServerURL,      \* o.ScmClientFactory.GitServerURL
    GitCredentials,    \* o.GitCredentials
    Rules,             \* o.UpdateConfig.Spec.Rules
    Function,          \* o.Function: the rule and gitURL the closure captured
    PullRequests,      \* pull requests recorded by AddPullRequest
    i,                 \* index of the rule being processed (1-based)
    j,                 \* index of the URL being processed in rule i (1-based)
    k,                 \* index of the next change the change function applies
    details,           \* the scm.PullRequest built for the current URL
    versionFile,       \* the version file on disk
    envVERSION,        \* the VERSION environment variable
    configFile,        \* the updatebot config file on disk
    openPRs,           \* open pull requests at the SCM provider
    createCalls,       \* arguments and engine state at each Create call
    applied,           \* appliers invoked on the current working directory
    results,           \* what each Create call returned, in order
    resolved           \* rules FindURLs has returned nil for, in order

vars == <<pc, err, Version, NoVersion, PullRequestTitle, CommitTitle,
          PullRequestBody, CommitMessage, AutoMerge, Labels, PullRequestFilter,
          BranchName, Fork, GitToken, GitServerURL, GitCredentials, Rules,
          Function, PullRequests, i, j, k, details, versionFile, envVERSION,
          configFile, openPRs, createCalls, applied, results, resolved>>

\* the fields of Options that Run only reads
flagVars == <<NoVersion, AutoMerge, Labels, GitCredentials>>
\* the process environment and the files Run only reads
envVars == <<versionFile, envVERSION, configFile>>
\* the git/SCM client settings
scmVars == <<GitToken, GitServerURL>>
\* the titles and messages
textVars == <<PullRequestTitle, CommitTitle, PullRequestBody, CommitMessage>>
\* the state of the rule/URL loop
loopVars == <<Fork, BranchName, PullRequestFilter, Function, PullRequests,
              i, j, k, details, openPRs, createCalls, applied, results,
              resolved>>

----------------------------------------------------------------------------
\* Bounds of the model

\* longest list of rules a config file holds
MaxRules == 2
\* most URLs one GoFindURLs call discovers
MaxDiscovered == 1

----------------------------------------------------------------------------
\* Strings

Empty == <<>>

URL_A == <<"h", "t", "t", "p", "s", ":", "/", "/", "g", "i", "t", "h", "u", "b", ".", "c", "o", "m", "/", "a", "c", "m", "e", "/", "w", "i", "d", "g", "e", "t", "s", ".", "g", "i", "t">>
URL_B == <<"h", "t", "t", "p", "s", ":", "/", "/", "g", "i", "t", "h", "u", "b", ".", "c", "o", "m", "/", "a", "c", "m", "e", "/", "g", "a", "d", "g", "e", "t", "s">>
URL_N == <<"w", "i", "d", "g", "e", "t", "s">>
V123 == <<"1", ".", "2", ".", "3">>
V999 == <<"9", ".", "9", ".", "9">>
V200 == <<"2", ".", "0", ".", "0">>
V100 == <<"1", ".", "0", ".", "0">>
FileData100 == <<" ", "1", ".", "0", ".", "0", "\n">>
FileDataBlank == <<" ", "\n">>
CustomTitle == <<"f", "i", "x", ":", " ", "b", "u", "m", "p">>
CustomCommit == <<"c", "h", "o", "r", "e", ":", " ", "x">>

\* the format string of the synthesized title, around its two %s
TitlePrefix == <<"c", "h", "o", "r", "e", "(", "d", "e", "p", "s", ")", ":", " ", "u", "p", "g", "r", "a", "d", "e", " ">>
TitleInfix == <<" ", "t", "o", " ", "v", "e", "r", "s", "i", "o", "n", " ">>

\* environments.LabelUpdatebot
LabelUpdatebot == "updatebot"

\* unicode.IsSpace on the characters the model uses
IsSpace(c) == c \in {" ", "\n", "\t", "\r"}

\* strings.TrimSpace: drop the leading and the trailing white space
TrimSpace(s) ==
    LET idx == {n \in 1..Len(s) : ~IsSpace(s[n])}
        lo == CHOOSE n \in idx : \A m \in idx : n <= m
        hi == CHOOSE n \in idx : \A m \in idx : n >= m
    IN IF idx = {} THEN Empty ELSE SubSeq(s, lo, hi)

\* strings.Split(s, "/"): the pieces between the separators, one more than
\* the number of separators (a string without separator is its only piece)
RECURSIVE SplitFrom(_, _, _, _)
SplitFrom(s, n, pieces, piece) ==
    IF n > Len(s) THEN Append(pieces, piece)
    ELSE IF s[n] = "/" THEN SplitFrom(s, n + 1, Append(pieces, piece), Empty)
    ELSE SplitFrom(s, n + 1, pieces, Append(piece, s[n]))

SplitSlash(s) == SplitFrom(s, 1, <<>>, Empty)

\* gitURLpart[len-2] + "/" + gitURLpart[len-1]; the caller checks InRange
Repository(parts) == parts[Len(parts) - 1] \o <<"/">> \o parts[Len(parts)]

\* whether both index expressions len-2 and len-1 are inside the slice
InRange(parts) == Len(parts) >= 2

\* fmt.Sprintf("chore(deps): upgrade %s to version %s", repository, version)
SynthTitle(gitURL, version) ==
    TitlePrefix \o Repository(SplitSlash(gitURL)) \o TitleInfix \o version

\* stringhelpers.StringArrayIndex(list, s) < 0
NotInList(list, s) == \A n \in 1..Len(list) : list[n] # s

----------------------------------------------------------------------------
\* Configuration: v1alpha1.Change, v1alpha1.Rule, v1alpha1.UpdateConfig

\* a Change is the set of its populated (non-nil) fields
CmdChange == {"Command"}
GoChange == {"Go"}
RegexChange == {"Regex"}
VersionStreamChange == {"VersionStream"}
UnknownChange == {}
MultiChange == {"Regex", "VersionStream"}

RulePool ==
    { [Fork |-> FALSE, URLs |-> <<>>, Changes |-> <<GoChange>>],
      [Fork |-> TRUE, URLs |-> <<URL_A, URL_B>>,
       Changes |-> <<CmdChange, UnknownChange, RegexChange>>],
      [Fork |-> FALSE, URLs |-> <<Empty, URL_N>>,
       Changes |-> <<MultiChange, VersionStreamChange>>] }

\* the lists of rules a config file may hold
Configs == UNION {[1..n -> RulePool] : n \in 0..MaxRules}

\* URLs module discovery may return
DiscoverablePool == {URL_A}
Discoveries == UNION {[1..n -> DiscoverablePool] : n \in 0..MaxDiscovered}

----------------------------------------------------------------------------
\* Initial states: the Options as NewCmdPullRequest and the flags leave them,
\* the files and the environment of the process, the SCM provider's state

\* a nil *environments.PullRequestFilter
NilFilter == [isNil |-> TRUE, Labels |-> <<>>]
\* &environments.PullRequestFilter{Labels: labels}
FilterOf(labels) == [isNil |-> FALSE, Labels |-> labels]

\* a version file and a config file on disk
VersionFileOf(state, data) == [state |-> state, data |-> data]
ConfigFileOf(state, rules) == [state |-> state, rules |-> rules]

\* an open pull request at the provider
PullRequestOf(id, url, labels) == [id |-> id, url |-> url, labels |-> labels]

\* what every run starts from, whatever the flags
InitCommon ==
    /\ pc = "validate"
    /\ err = "none"
    /\ BranchName = ""
    /\ Fork = FALSE
    /\ Rules = <<>>
    /\ Function = [rule |-> 0, gitURL |-> Empty]
    /\ PullRequests = <<>>
    /\ i = 0 /\ j = 0 /\ k = 0
    /\ details = [Title |-> Empty, Body |-> "", Labels |-> <<>>]
    /\ createCalls = <<>>
    /\ applied = <<>>
    /\ results = <<>>
    /\ resolved = <<>>

\* the runs the rule engine is explored on: the version and the git settings
\* are given, the config file and the pull-request options vary
Init ==
    /\ InitCommon
    /\ \E flags \in {<<V123, FALSE>>, <<Empty, TRUE>>, <<Empty, FALSE>>} :
         Version = flags[1] /\ NoVersion = flags[2]
    /\ versionFile = VersionFileOf("missing", Empty)
    /\ envVERSION = Empty
    /\ configFile \in {ConfigFileOf("present", c) : c \in Configs}
    /\ PullRequestTitle \in {Empty, CustomTitle}
    /\ CommitTitle \in {Empty, CustomCommit}
    /\ PullRequestBody = "body"
    /\ CommitMessage = "message"
    /\ AutoMerge \in BOOLEAN
    /\ Labels = <<"dependencies">>
    /\ PullRequestFilter \in {NilFilter, FilterOf(<<>>), FilterOf(<<"other">>),
                              FilterOf(<<LabelUpdatebot>>)}
    /\ GitToken = "token"
    /\ GitServerURL = "server"
    /\ GitCredentials = FALSE
    /\ openPRs \in {{}, {PullRequestOf(1, URL_A, {LabelUpdatebot})}}

\* the runs Validate and the body discovery are explored on: the config file
\* holds no rule, the version sources and the git settings vary
InitSetup ==
    /\ InitCommon
    /\ Version \in {Empty, V999}
    /\ NoVersion \in BOOLEAN
    /\ versionFile \in {VersionFileOf("missing", Empty),
                        VersionFileOf("staterr", Empty),
                        VersionFileOf("readerr", FileData100),
                        VersionFileOf("present", Empty),
                        VersionFileOf("present", FileDataBlank),
                        VersionFileOf("present", FileData100)}
    /\ envVERSION \in {Empty, V200}
    /\ configFile \in {ConfigFileOf("missing", <<>>),
                       ConfigFileOf("staterr", <<>>),
                       ConfigFileOf("loaderr", <<>>),
                       ConfigFileOf("present", <<>>)}
    /\ PullRequestTitle = Empty
    /\ CommitTitle = Empty
    /\ PullRequestBody \in {"", "body"}
    /\ CommitMessage \in {"", "message"}
    /\ AutoMerge = TRUE
    /\ Labels = <<>>
    /\ PullRequestFilter = NilFilter
    /\ GitToken \in {"", "token"}
    /\ GitServerURL \in {"", "server"}
    /\ GitCredentials \in BOOLEAN
    /\ openPRs = {}

\* the runs the errors of Validate are explored on: the config file holds
\* rules, the version comes from $VERSION or is missing, the git token, the
\* git server and the git credentials switch vary
InitConfig ==
    /\ InitCommon
    /\ Version = Empty
    /\ NoVersion \in BOOLEAN
    /\ versionFile = VersionFileOf("missing", Empty)
    /\ envVERSION \in {Empty, V200}
    /\ configFile \in {ConfigFileOf("present", c) : c \in Configs}
    /\ PullRequestTitle = Empty
    /\ CommitTitle = Empty
    /\ PullRequestBody = "body"
    /\ CommitMessage = "message"
    /\ AutoMerge = TRUE
    /\ Labels = <<>>
    /\ PullRequestFilter = NilFilter
    /\ GitToken \in {"", "token"}
    /\ GitServerURL \in {"", "server"}
    /\ GitCredentials \in BOOLEAN
    /\ openPRs = {}

----------------------------------------------------------------------------
\* Run: the return of an error, and a panic

Fail(e) == pc' = "failed" /\ err' = e

----------------------------------------------------------------------------
\* Validate

\* mutant of ValidateFails: Run drops the error of Validate and goes on
ValidateErrorDropped(e) == err' = e /\ pc' = "body"

\* Run returns the error Validate returned
ValidateFails(e) == Fail(e)

\* mutant of VersionFromFile: the version file overrides the flag
VersionFromFileFirst(version, file) ==
    IF file.state = "present" THEN TrimSpace(file.data) ELSE version

\* o.Version after the version-file step of Validate
VersionFromFile(version, file) ==
    IF version = Empty /\ file.state = "present" THEN TrimSpace(file.data)
    ELSE version

\* o.Version after the environment step of Validate
VersionFromEnv(version, env) == IF version = Empty THEN env ELSE version

\* o.Version as Validate resolves it from the flag, the file and the
\* environment
ResolvedVersion(version, file, env) ==
    VersionFromEnv(VersionFromFile(version, file), env)

\* mutant of MissingVersion: NoVersion is not consulted
MissingVersionIgnoringFlag(version, noVersion) == version = Empty

\* whether Validate returns options.MissingOption("version")
MissingVersion(version, noVersion) == version = Empty /\ ~noVersion

\* Validate, the version: the flag, else the version file, else $VERSION
ResolveVersion ==
    /\ pc = "validate"
    /\ IF Version = Empty /\ versionFile.state \in {"staterr", "readerr"}
       THEN ValidateFails("VersionFile") /\ UNCHANGED Version
       ELSE LET v == ResolvedVersion(Version, versionFile, envVERSION)
            IN /\ Version' = v
               /\ IF MissingVersion(v, NoVersion)
                  THEN ValidateFails("MissingOption")
                  ELSE pc' = "loadconfig" /\ UNCHANGED err
    /\ UNCHANGED <<flagVars, envVars, scmVars, textVars, loopVars, Rules>>

\* Validate, the config file: loaded when it exists
LoadConfig ==
    /\ pc = "loadconfig"
    /\ CASE configFile.state \in {"staterr", "loaderr"} ->
              ValidateFails("ConfigFile") /\ UNCHANGED Rules
         [] configFile.state = "present" ->
              Rules' = configFile.rules /\ pc' = "gitsetup" /\ UNCHANGED err
         [] OTHER ->
              pc' = "gitsetup" /\ UNCHANGED <<err, Rules>>
    /\ UNCHANGED <<flagVars, envVars, scmVars, textVars, loopVars, Version>>

\* what scmhelpers.Options.Validate discovers from the local git remote
DiscoverOutcomes ==
    {[ok |-> FALSE, server |-> "", token |-> ""]}
    \cup {[ok |-> TRUE, server |-> s, token |-> t] :
              s \in {"", "server"}, t \in {"", "token"}}

\* what ScmClientFactory.FindGitToken does: fail, find nothing, find a token
FindTokenOutcomes == {"error", "nothing", "found"}

\* Validate, the git identity, the token and server discovery and the git
\* credentials (the default of GitCommitUsername changes nothing Run reads
\* afterwards and is left out)
SetupGit ==
    /\ pc = "gitsetup"
    /\ \E userOK \in BOOLEAN, d \in DiscoverOutcomes, f \in FindTokenOutcomes,
          credsOK \in BOOLEAN :
         LET discovers == GitToken = "" /\ GitServerURL = ""
             server == IF discovers THEN d.server ELSE GitServerURL
             tok0 == IF discovers THEN d.token ELSE GitToken
             tok == IF GitToken = "" /\ f = "found" /\ tok0 = ""
                    THEN "token" ELSE tok0
         IN CASE ~userOK ->
                   ValidateFails("GitUser") /\ UNCHANGED scmVars
              [] userOK /\ discovers /\ ~d.ok ->
                   ValidateFails("Discover") /\ UNCHANGED scmVars
              [] userOK /\ ~(discovers /\ ~d.ok) /\ GitToken = "" /\ server = "" ->
                   ValidateFails("NoGitServer") /\ GitServerURL' = server /\ GitToken' = tok0
              [] userOK /\ ~(discovers /\ ~d.ok) /\ GitToken = "" /\ server # ""
                   /\ f = "error" ->
                   ValidateFails("FindGitToken") /\ GitServerURL' = server /\ GitToken' = tok0
              [] OTHER ->
                   /\ GitServerURL' = server
                   /\ GitToken' = tok
                   /\ IF GitCredentials /\ tok = "" THEN ValidateFails("MissingToken")
                      ELSE IF GitCredentials /\ ~credsOK THEN ValidateFails("GitCredentials")
                      ELSE pc' = "body" /\ UNCHANGED err
    /\ UNCHANGED <<flagVars, envVars, textVars, loopVars, Version, Rules>>

\* what gitdiscovery.FindGitURLFromDir returns: an error, "" or a URL
BodyDiscoveries == {"error", "", "from: https://github.com/acme/upstream\n"}

\* Run, the default of the pull-request body and of the commit message
DiscoverBody ==
    /\ pc = "body"
    /\ \E message \in BodyDiscoveries :
         LET found == (PullRequestBody = "" \/ CommitMessage = "")
                      /\ message \notin {"error", ""}
         IN /\ PullRequestBody' =
                   IF found /\ PullRequestBody = "" THEN message ELSE PullRequestBody
            /\ CommitMessage' =
                   IF found /\ CommitMessage = "" THEN message ELSE CommitMessage
    /\ pc' = "rule"
    /\ i' = 1
    /\ UNCHANGED <<err, flagVars, envVars, scmVars, PullRequestTitle, CommitTitle,
                   Version, Rules, Fork, BranchName, PullRequestFilter, Function,
                   PullRequests, j, k, details, openPRs, createCalls, applied,
                   results, resolved>>

\* Validate and the body discovery: everything Run does before the rules
NextSetup == ResolveVersion \/ LoadConfig \/ SetupGit \/ DiscoverBody

SpecSetup == InitSetup /\ [][NextSetup]_vars

----------------------------------------------------------------------------
\* FindURLs

\* what one GoFindURLs call does: fail, or append the URLs it discovers
DiscoveryOutcomes ==
    {[ok |-> FALSE, urls |-> <<>>]}
    \cup {[ok |-> TRUE, urls |-> u] : u \in Discoveries}

\* the positions of the changes FindURLs calls GoFindURLs for
GoIndices(changes) == {c \in 1..Len(changes) : "Go" \in changes[c]}

\* GoFindURLs on the change at position c, given what discovery returns
GoFindURLs(urls, outcome) == urls \o outcome.urls

\* FindURLs from the change at position c on: the first failing discovery
\* ends it, every other one appends to rule.URLs
RECURSIVE FindURLsFrom(_, _, _, _)
FindURLsFrom(changes, c, urls, d) ==
    IF c > Len(changes) THEN [ok |-> TRUE, URLs |-> urls]
    ELSE IF "Go" \notin changes[c] THEN FindURLsFrom(changes, c + 1, urls, d)
    ELSE IF ~d[c].ok THEN [ok |-> FALSE, URLs |-> urls]
    ELSE FindURLsFrom(changes, c + 1, GoFindURLs(urls, d[c]), d)

FindURLs(rule, d) == FindURLsFrom(rule.Changes, 1, rule.URLs, d)

----------------------------------------------------------------------------
\* Run, the loop over the rules and over the URLs of a rule

\* the loop over the rules has ended: Run returns nil
RunDone ==
    /\ pc = "rule"
    /\ i > Len(Rules)
    /\ pc' = "done"
    /\ UNCHANGED <<err, flagVars, envVars, scmVars, textVars, loopVars, Version,
                   Rules>>

\* mutant of NoURLsIsError: a rule without URLs ends the run
NoURLsIsErrorAlways(urls) == urls = <<>>

\* whether Run returns an error for a rule without URLs: it only warns
NoURLsIsError(urls) == FALSE

\* mutant of FindURLsFails: Run drops the error of FindURLs and goes on
FindURLsErrorDropped(found) == FALSE

\* whether Run returns the error of FindURLs
FindURLsFails(found) == ~found.ok

\* mutant of ActiveFork: the flag keeps the value it had
StaleFork(rule) == Fork

\* o.Fork as the head of the loop over the rules sets it
ActiveFork(rule) == rule.Fork

\* the head of the loop over the rules: resolve the URLs of rule i, set Fork
ResolveRule ==
    /\ pc = "rule"
    /\ i <= Len(Rules)
    /\ \E d \in [GoIndices(Rules[i].Changes) -> DiscoveryOutcomes] :
         LET found == FindURLs(Rules[i], d)
         IN /\ Rules' = [Rules EXCEPT ![i].URLs = found.URLs]
            /\ resolved' = IF found.ok THEN Append(resolved, i) ELSE resolved
            /\ IF FindURLsFails(found) \/ NoURLsIsError(found.URLs)
               THEN Fail("FindURLs") /\ UNCHANGED <<Fork, j>>
               ELSE /\ Fork' = ActiveFork(Rules[i])
                    /\ j' = 1
                    /\ pc' = "url"
                    /\ UNCHANGED err
    /\ UNCHANGED <<flagVars, envVars, scmVars, textVars, Version, BranchName,
                   PullRequestFilter, Function, PullRequests, i, k, details,
                   openPRs, createCalls, applied, results>>

\* the loop over the URLs of rule i has ended
NextRule ==
    /\ pc = "url"
    /\ j > Len(Rules[i].URLs)
    /\ i' = i + 1
    /\ pc' = "rule"
    /\ UNCHANGED <<err, flagVars, envVars, scmVars, textVars, Version, Rules,
                   Fork, BranchName, PullRequestFilter, Function, PullRequests,
                   j, k, details, openPRs, createCalls, applied, results,
                   resolved>>

\* mutant of AfterEmptyURL: an empty URL ends the loop over the URLs
BreakAtEmptyURL(urls, pos) == Len(urls) + 1

\* where the loop over the URLs goes on after an empty URL: continue
AfterEmptyURL(urls, pos) == pos + 1

\* an empty URL is skipped
SkipEmptyURL ==
    /\ pc = "url"
    /\ j <= Len(Rules[i].URLs)
    /\ Rules[i].URLs[j] = Empty
    /\ j' = AfterEmptyURL(Rules[i].URLs, j)
    /\ UNCHANGED <<pc, err, flagVars, envVars, scmVars, textVars, Version, Rules,
                   Fork, BranchName, PullRequestFilter, Function, PullRequests,
                   i, k, details, openPRs, createCalls, applied, results,
                   resolved>>

\* mutant of ClearBranchName: the branch name is not reset
KeepBranchName(branch) == branch

\* o.BranchName as the loop body sets it before Create
ClearBranchName(branch) == ""

\* the scm.PullRequest the loop body builds
BuildDetails(title, body, labels) ==
    [Title |-> title, Body |-> body, Labels |-> labels]

\* mutant of EnsureUpdatebotLabel: the filter is made but the label not added
EnsureFilterOnly(filter, autoMerge) ==
    IF autoMerge /\ filter.isNil THEN FilterOf(<<>>) ELSE filter

\* mutant of EnsureUpdatebotLabel: the label replaces the filter's labels
OverwriteWithUpdatebot(filter, autoMerge) ==
    IF ~autoMerge THEN filter ELSE FilterOf(<<LabelUpdatebot>>)

\* mutant of EnsureUpdatebotLabel: the label is appended without a lookup
AppendUpdatebotAlways(filter, autoMerge) ==
    IF ~autoMerge THEN filter
    ELSE FilterOf((IF filter.isNil THEN <<>> ELSE filter.Labels)
                  \o <<LabelUpdatebot>>)

\* o.PullRequestFilter after the "reuse existing PullRequest" block
EnsureUpdatebotLabel(filter, autoMerge) ==
    IF ~autoMerge THEN filter
    ELSE LET f == IF filter.isNil THEN FilterOf(<<>>) ELSE filter
         IN IF NotInList(f.Labels, LabelUpdatebot)
            THEN FilterOf(Append(f.Labels, LabelUpdatebot))
            ELSE f

\* the loop body up to the Create call, for a non-empty URL
PrepareURL ==
    /\ pc = "url"
    /\ j <= Len(Rules[i].URLs)
    /\ Rules[i].URLs[j] # Empty
    /\ BranchName' = ClearBranchName(BranchName)
    /\ details' = BuildDetails(PullRequestTitle, PullRequestBody, Labels)
    /\ Function' = [rule |-> i, gitURL |-> Rules[i].URLs[j]]
    /\ PullRequestFilter' = EnsureUpdatebotLabel(PullRequestFilter, AutoMerge)
    /\ pc' = "create"
    /\ UNCHANGED <<err, flagVars, envVars, scmVars, textVars, Version, Rules,
                   Fork, PullRequests, i, j, k, openPRs, createCalls, applied,
                   results, resolved>>

----------------------------------------------------------------------------
\* ApplyChanges and the change function Run hands to Create

\* mutant of Applier: a change with no field populated runs as a command
ApplierDefaultCommand(change) ==
    IF "Command" \in change THEN "Command"
    ELSE IF "Go" \in change THEN "Go"
    ELSE IF "Regex" \in change THEN "Regex"
    ELSE IF "VersionStream" \in change THEN "VersionStream"
    ELSE "Command"

\* mutant of Applier: VersionStream is looked at before Regex
ApplierVersionStreamFirst(change) ==
    IF "Command" \in change THEN "Command"
    ELSE IF "Go" \in change THEN "Go"
    ELSE IF "VersionStream" \in change THEN "VersionStream"
    ELSE IF "Regex" \in change THEN "Regex"
    ELSE "none"

\* the applier ApplyChanges dispatches a change to: the first populated of
\* Command, Go, Regex, VersionStream, or none
Applier(change) ==
    IF "Command" \in change THEN "Command"
    ELSE IF "Go" \in change THEN "Go"
    ELSE IF "Regex" \in change THEN "Regex"
    ELSE IF "VersionStream" \in change THEN "VersionStream"
    ELSE "none"

\* the working directory after ApplyChanges on the change at position pos:
\* the applier it invoked, if any, is logged with its result
ApplyChanges(dir, pos, change, ok) ==
    IF Applier(change) = "none" THEN dir
    ELSE Append(dir, [pos |-> pos, applier |-> Applier(change), ok |-> ok])

\* whether ApplyChanges returns an error: the applier's own result
ApplyChangesFails(change, ok) == Applier(change) # "none" /\ ~ok

\* what Create returned: an error, nil, or the pull request with this id
ResultOf(kind, id) == [kind |-> kind, id |-> id]

\* mutant of CreateFails: Run logs the error of Create and goes on
CreateErrorLogged == err' = "CreatePR" /\ pc' = "url"

\* Run returns the error Create returned
CreateFails == Fail("CreatePR")

\* the changes the closure applies: those of the rule it captured
FunctionChanges == Rules[Function.rule].Changes

\* mutant of StopsAtFailure: the error of ApplyChanges is dropped
IgnoresFailure(failed) == FALSE

\* whether the change function returns at the first failing change
StopsAtFailure(failed) == failed

\* one turn of the loop of the change function: apply the change at k
ApplyChange ==
    /\ pc = "function"
    /\ k <= Len(FunctionChanges)
    /\ \E ok \in BOOLEAN :
         /\ applied' = ApplyChanges(applied, k, FunctionChanges[k], ok)
         /\ IF StopsAtFailure(ApplyChangesFails(FunctionChanges[k], ok))
            THEN /\ CreateFails
                 /\ results' = Append(results, ResultOf("error", 0))
                 /\ UNCHANGED k
            ELSE k' = k + 1 /\ UNCHANGED <<pc, err, results>>
    /\ UNCHANGED <<flagVars, envVars, scmVars, textVars, Version, Rules, Fork,
                   BranchName, PullRequestFilter, Function, PullRequests, i, j,
                   details, openPRs, createCalls, resolved>>

\* o.PullRequestTitle after the change function, when the indexes are in range
TitleAfterFunction(title, gitURL, version) ==
    IF title = Empty THEN SynthTitle(gitURL, version) ELSE title

\* mutant of CommitTitleAfterFunction: the commit title always follows the
\* pull-request title
CommitTitleAlwaysTitle(commitTitle, title) == title

\* o.CommitTitle after the change function
CommitTitleAfterFunction(commitTitle, title) ==
    IF commitTitle = Empty THEN title ELSE commitTitle

\* whether the title synthesis indexes outside gitURLpart
SynthesisPanics(title, gitURL) ==
    title = Empty /\ ~InRange(SplitSlash(gitURL))

\* the end of the change function, all changes applied: the default titles
FunctionReturn ==
    /\ pc = "function"
    /\ k > Len(FunctionChanges)
    /\ IF SynthesisPanics(PullRequestTitle, Function.gitURL)
       THEN pc' = "panic" /\ UNCHANGED <<PullRequestTitle, CommitTitle>>
       ELSE LET title == TitleAfterFunction(PullRequestTitle, Function.gitURL,
                                            Version)
            IN /\ PullRequestTitle' = title
               /\ CommitTitle' = CommitTitleAfterFunction(CommitTitle, title)
               /\ pc' = "reconcile"
    /\ UNCHANGED <<err, flagVars, envVars, scmVars, PullRequestBody,
                   CommitMessage, Version, Rules, loopVars>>

----------------------------------------------------------------------------
\* EnvironmentPullRequestOptions.Create, the pull-request reconciler

\* the branch Create makes when o.BranchName is empty
NewBranch == "pr-branch"

\* what Run passes to Create, and the engine state Create reads
CreateCall ==
    [gitURL |-> Rules[i].URLs[j], rule |-> i, details |-> details,
     autoMerge |-> AutoMerge, BranchName |-> BranchName, Fork |-> Fork,
     filter |-> PullRequestFilter]

\* Create is called: it fails early, or clones the repository, makes the
\* branch and runs the change function
CreateBegin ==
    /\ pc = "create"
    /\ createCalls' = Append(createCalls, CreateCall)
    /\ \E ok \in BOOLEAN :
         IF ok
         THEN /\ BranchName' = IF BranchName = "" THEN NewBranch ELSE BranchName
              /\ applied' = <<>>
              /\ k' = 1
              /\ pc' = "function"
              /\ UNCHANGED <<err, results>>
         ELSE /\ CreateFails
              /\ results' = Append(results, ResultOf("error", 0))
              /\ UNCHANGED <<BranchName, applied, k>>
    /\ UNCHANGED <<flagVars, envVars, scmVars, textVars, Version, Rules, Fork,
                   PullRequestFilter, Function, PullRequests, i, j, details,
                   openPRs, resolved>>

\* the open pull requests of gitURL the reconciler reuses: with autoMerge and
\* the sentinel label in the filter, those that carry the sentinel label
Reusable(prs, gitURL, autoMerge, filter) ==
    IF autoMerge /\ ~filter.isNil /\ ~NotInList(filter.Labels, LabelUpdatebot)
    THEN {p \in prs : p.url = gitURL /\ LabelUpdatebot \in p.labels}
    ELSE {}

\* the labels of a pull request Create opens
NewLabels(d, autoMerge) ==
    {d.Labels[n] : n \in 1..Len(d.Labels)}
    \cup (IF autoMerge THEN {LabelUpdatebot} ELSE {})

\* the next free pull-request number at the provider
NextId(prs) == Cardinality(prs) + 1

\* whether the change function left a diff to commit
HasDiff(dir) == \E n \in 1..Len(dir) : dir[n].ok

\* mutant of AddPullRequest: the pull request is not recorded
AddPullRequestNever(recorded, pr) == recorded

\* o.PullRequests after Run handles what Create returned
AddPullRequest(recorded, pr) == Append(recorded, pr)

\* Create returns: an error, nil (nothing to commit) or a pull request, the
\* reused one if there is one to reuse; Run records a pull request
CreateReturn ==
    /\ pc = "reconcile"
    /\ \E result \in {"error", "nil", "pr"} :
         LET url == Function.gitURL
             reuse == Reusable(openPRs, url, AutoMerge, PullRequestFilter)
             fresh == PullRequestOf(NextId(openPRs), url,
                                    NewLabels(details, AutoMerge))
         IN CASE result = "error" ->
                   /\ CreateFails
                   /\ results' = Append(results, ResultOf("error", 0))
                   /\ UNCHANGED <<openPRs, PullRequests, j>>
              [] result = "nil" ->
                   /\ results' = Append(results, ResultOf("nil", 0))
                   /\ j' = j + 1
                   /\ pc' = "url"
                   /\ UNCHANGED <<err, openPRs, PullRequests>>
              [] OTHER ->
                   /\ HasDiff(applied)
                   /\ \E pr \in (IF reuse = {} THEN {fresh} ELSE reuse) :
                        /\ openPRs' = openPRs \cup {pr}
                        /\ results' = Append(results, ResultOf("pr", pr.id))
                        /\ PullRequests' = AddPullRequest(PullRequests, pr)
                   /\ j' = j + 1
                   /\ pc' = "url"
                   /\ UNCHANGED err
    /\ UNCHANGED <<flagVars, envVars, scmVars, textVars, Version, Rules, Fork,
                   BranchName, PullRequestFilter, Function, i, k, details,
                   createCalls, applied, resolved>>

----------------------------------------------------------------------------
\* The specification of a whole run

Next ==
    \/ ResolveVersion
    \/ LoadConfig
    \/ SetupGit
    \/ DiscoverBody
    \/ RunDone
    \/ ResolveRule
    \/ NextRule
    \/ SkipEmptyURL
    \/ PrepareURL
    \/ CreateBegin
    \/ ApplyChange
    \/ FunctionReturn
    \/ CreateReturn

Spec == Init /\ [][Next]_vars

\* a whole run, from the initial states that make Validate fail
SpecConfig == InitConfig /\ [][Next]_vars

----------------------------------------------------------------------------
\* Claims

\* a step in which the change function returns nil
FunctionSucceeds == pc = "function" /\ pc' = "reconcile"

\* "chore(deps): upgrade acme/widgets to version 1.2.3"
TitleAcmeWidgets123 == <<"c", "h", "o", "r", "e", "(", "d", "e", "p", "s", ")", ":", " ", "u", "p", "g", "r", "a", "d", "e", " ", "a", "c", "m", "e", "/", "w", "i", "d", "g", "e", "t", "s", " ", "t", "o", " ", "v", "e", "r", "s", "i", "o", "n", " ", "1", ".", "2", ".", "3">>

\* whether title has the shape "chore(deps): upgrade <x> to version <version>"
HasTitleShape(title, version) ==
    LET tail == TitleInfix \o version
    IN /\ Len(title) > Len(TitlePrefix) + Len(tail)
       /\ SubSeq(title, 1, Len(TitlePrefix)) = TitlePrefix
       /\ SubSeq(title, Len(title) - Len(tail) + 1, Len(title)) = tail

\* C1: when no title is configured and the changes of a repository succeed,
\* the title the change function sets is "chore(deps): upgrade <org>/<repo>
\* to version <Version>"; for https://github.com/acme/widgets.git and 1.2.3
\* it is "chore(deps): upgrade acme/widgets to version 1.2.3".
C1_DefaultTitle ==
    [][(FunctionSucceeds /\ PullRequestTitle = Empty) =>
         /\ HasTitleShape(PullRequestTitle', Version)
         /\ (Function.gitURL = URL_A /\ Version = V123 =>
                PullRequestTitle' = TitleAcmeWidgets123)]_vars

\* whether the run was started with a pull-request title
TitleConfigured == PullRequestTitle = CustomTitle

\* C2: in a run without configured title, the title in effect after the
\* change function of a URL succeeds is the one synthesized from that URL's
\* own last two path segments and the version, for every URL of the run.
C2_TitlePerURL ==
    [][(FunctionSucceeds /\ ~TitleConfigured
          /\ InRange(SplitSlash(Function.gitURL))) =>
         PullRequestTitle' = SynthTitle(Function.gitURL, Version)]_vars

\* the version the version file holds, among the files explored
FileVersion ==
    IF versionFile = VersionFileOf("present", FileData100) THEN V100 ELSE Empty

\* whether the version file cannot be checked or read
FileError == versionFile.state \in {"staterr", "readerr"}

C4_MissingVersion ==
    [][pc = "validate" =>
         /\ (Version = Empty /\ ~FileError /\ FileVersion = Empty
               /\ envVERSION = Empty =>
                IF NoVersion
                THEN pc' = "loadconfig" /\ err' = "none" /\ Version' = Empty
                ELSE pc' = "failed" /\ err' = "MissingOption")
         /\ (err' = "MissingOption" =>
                /\ ~NoVersion
                /\ Version = Empty /\ FileVersion = Empty /\ envVERSION = Empty
                /\ pc' = "failed")]_vars

\* Validate went on with no version at all, NoVersion being set
C4_Witness ==
    /\ pc = "loadconfig"
    /\ NoVersion
    /\ Version = Empty
    /\ envVERSION = Empty
    /\ versionFile = VersionFileOf("present", FileDataBlank)

\* every rule is resolved and none has a URL
AllRulesEmpty ==
    /\ Len(resolved) = Len(Rules)
    /\ \A r \in 1..Len(Rules) : Rules[r].URLs = <<>>

\* C5: if every rule's URL list is empty after resolution, Run makes no Create
\* call, records no pull request and returns no error; a rule with an empty
\* URL list passes on to the next rule.
C5_EmptyRules ==
    /\ [](i >= 1 /\ AllRulesEmpty =>
            /\ createCalls = <<>>
            /\ PullRequests = <<>>
            /\ err = "none"
            /\ pc \in {"rule", "url", "done"})
    /\ [][pc = "url" /\ Rules[i].URLs = <<>> =>
            pc' = "rule" /\ i' = i + 1 /\ err' = "none"]_vars

\* a run over two rules without URLs has ended
C5_Witness ==
    /\ pc = "done"
    /\ Len(Rules) = 2
    /\ AllRulesEmpty
    /\ createCalls = <<>>
    /\ err = "none"

\* C6: at every Create call o.BranchName is empty, whatever the Create of the
\* previous repository left in it.
C6_BranchNameCleared ==
    /\ pc = "create" => BranchName = ""
    /\ \A n \in 1..Len(createCalls) : createCalls[n].BranchName = ""

\* a second repository of the second rule is at its Create call
C6_Witness ==
    /\ pc = "create"
    /\ Len(createCalls) = 3
    /\ i = 2 /\ j = 2

\* the open pull requests of url that carry the sentinel label
SentinelPRs(url) ==
    {p \in openPRs : p.url = url /\ LabelUpdatebot \in p.labels}

\* C7: with AutoMerge, an open pull request of a URL that carries the sentinel
\* label is reused by a further invocation for that URL: the URL never has
\* more than one open pull request carrying the sentinel label.
C7_NoDuplicatePR ==
    AutoMerge =>
        \A url \in {URL_A, URL_B, URL_N} : Cardinality(SentinelPRs(url)) <= 1

\* the second Create for a URL returned the pull request of the first
C7_Witness ==
    /\ AutoMerge
    /\ Len(PullRequests) = 2
    /\ PullRequests[1] = PullRequests[2]
    /\ Len(createCalls) = 2

\* C8: with AutoMerge, at every Create call the label filter exists and
\* holds the sentinel label, and the labels it held before are still there.
C8_FilterHasSentinel ==
    [][pc = "url" /\ pc' = "create" /\ AutoMerge =>
         /\ ~PullRequestFilter'.isNil
         /\ \E n \in 1..Len(PullRequestFilter'.Labels) :
               PullRequestFilter'.Labels[n] = LabelUpdatebot
         /\ Len(PullRequestFilter'.Labels) >= Len(PullRequestFilter.Labels)
         /\ SubSeq(PullRequestFilter'.Labels, 1, Len(PullRequestFilter.Labels))
               = PullRequestFilter.Labels]_vars

\* a filter that held another label is at a Create call with both
C8_Witness ==
    /\ pc = "create"
    /\ AutoMerge
    /\ PullRequestFilter = FilterOf(<<"other", LabelUpdatebot>>)

\* C9: ApplyChanges on a change with no field populated returns no error,
\* invokes no applier and leaves the working directory as it is; the change
\* function goes on to the next change.
C9_UnknownChange ==
    [][pc = "function" /\ k <= Len(FunctionChanges)
          /\ FunctionChanges[k] = UnknownChange =>
         /\ applied' = applied
         /\ k' = k + 1
         /\ pc' = "function"
         /\ err' = err]_vars

\* the change after a change with no field populated has been applied
C9_Witness ==
    /\ Function.rule >= 1
    /\ Len(FunctionChanges) = 3
    /\ FunctionChanges[2] = UnknownChange
    /\ \E n \in 1..Len(applied) : applied[n].pos = 3 /\ applied[n].ok

\* C10: if the change at position k fails, no change after k is applied to
\* that repository, the change function returns the failure, and the changes
\* before k stay applied.
C10_FailFast ==
    \A n \in 1..Len(applied) :
        ~applied[n].ok =>
            /\ n = Len(applied)
            /\ pc = "failed"
            /\ err = "CreatePR"
            /\ \A p \in 1..(applied[n].pos - 1) :
                  Applier(FunctionChanges[p]) # "none" =>
                      \E m \in 1..(n - 1) : applied[m].pos = p /\ applied[m].ok

\* the third change failed after the first was applied
C10_Witness ==
    /\ pc = "failed"
    /\ Len(applied) = 2
    /\ applied[1].ok /\ applied[1].pos = 1
    /\ ~applied[2].ok /\ applied[2].pos = 3

\* C11: once Create has returned an error Run has returned it: from then on no
\* Create call, no change application and no URL resolution happens, and the
\* step that fails leaves the recorded pull requests as they were.
C11_CreateErrorStops ==
    /\ [](err = "CreatePR" => pc = "failed")
    /\ [][/\ err' = "CreatePR" => PullRequests' = PullRequests
          /\ err = "CreatePR" =>
               UNCHANGED <<createCalls, applied, resolved, results>>]_vars

C11_Witness ==
    /\ pc = "failed"
    /\ err = "CreatePR"
    /\ Len(PullRequests) >= 1
    /\ i < Len(Rules)
    /\ Rules[i + 1].URLs # <<>>

\* the errors Validate returns
ValidateErrors ==
    {"VersionFile", "MissingOption", "ConfigFile", "GitUser", "Discover",
     "NoGitServer", "FindGitToken", "MissingToken", "GitCredentials"}

\* C12: when Validate has failed (no version where one is required, no git
\* server, no git token, or another of its errors) Run has returned the
\* error, and no rule's URLs were resolved, no change was applied and Create
\* was never called.
C12_ValidateErrorStops ==
    err \in ValidateErrors =>
        /\ pc = "failed"
        /\ resolved = <<>>
        /\ createCalls = <<>>
        /\ applied = <<>>
        /\ results = <<>>
        /\ PullRequests = <<>>

C12_Witness ==
    /\ pc = "failed"
    /\ err = "MissingToken"
    /\ Rules # <<>>
    /\ Rules[1].URLs # <<>>
    /\ GitCredentials

\* the other two errors the claim names are returned as well
C12_WitnessVersion == err = "MissingOption" /\ configFile.rules # <<>>
C12_WitnessServer == err = "NoGitServer" /\ Rules # <<>>

\* the rules FindURLs returned without an error for
ResolvedRules == {resolved[n] : n \in 1..Len(resolved)}

\* C13: when FindURLs has failed for rule i Run has returned the error, and
\* every Create call and every applied change belongs to a rule before i;
\* every Create call and every change application of a rule comes after
\* FindURLs returned for that rule.
C13_ResolutionFirst ==
    /\ err = "FindURLs" =>
         /\ pc = "failed"
         /\ i \notin ResolvedRules
         /\ \A n \in 1..Len(createCalls) : createCalls[n].rule < i
         /\ applied # <<>> => Function.rule < i
    /\ \A n \in 1..Len(createCalls) : createCalls[n].rule \in ResolvedRules
    /\ applied # <<>> => Function.rule \in ResolvedRules
    /\ pc \in {"url", "create", "function", "reconcile"} => i \in ResolvedRules

C13_Witness ==
    /\ pc = "failed"
    /\ err = "FindURLs"
    /\ i = 2
    /\ Len(createCalls) >= 1
    /\ applied # <<>>

\* the ids of the pull requests Create returned, in the order of the calls
RECURSIVE ReturnedIds(_)
ReturnedIds(rs) ==
    IF rs = <<>> THEN <<>>
    ELSE IF rs[1].kind = "pr" THEN <<rs[1].id>> \o ReturnedIds(Tail(rs))
    ELSE ReturnedIds(Tail(rs))

\* C14: the recorded pull requests are exactly those Create returned without
\* an error, in the order of the calls; when Create returns nil and no error
\* nothing is recorded, no error is set, and the loop goes on to the next URL
\* of the same rule.
C14_RecordedIffReturned ==
    /\ [](/\ Len(PullRequests) = Len(ReturnedIds(results))
          /\ \A n \in 1..Len(PullRequests) :
                PullRequests[n].id = ReturnedIds(results)[n])
    /\ [][results' # results /\ results'[Len(results')].kind = "nil" =>
            /\ PullRequests' = PullRequests
            /\ err' = "none"
            /\ pc' = "url"
            /\ i' = i
            /\ j' = j + 1]_vars

C14_Witness ==
    /\ Len(PullRequests) = 1
    /\ \E n \in 1..(Len(results) - 1) :
         results[n].kind = "nil" /\ results[n + 1].kind = "pr"
    /\ pc = "url"
    /\ err = "none"

\* the URLs of a list that are not empty, in order
RECURSIVE NonEmptyURLs(_)
NonEmptyURLs(urls) ==
    IF urls = <<>> THEN <<>>
    ELSE IF urls[1] = Empty THEN NonEmptyURLs(Tail(urls))
    ELSE <<urls[1]>> \o NonEmptyURLs(Tail(urls))

\* the non-empty URLs of the rules, rule after rule
RECURSIVE ExpectedURLs(_)
ExpectedURLs(rules) ==
    IF rules = <<>> THEN <<>>
    ELSE NonEmptyURLs(rules[1].URLs) \o ExpectedURLs(Tail(rules))

\* the URLs Create was called with, in the order of the calls
CalledURLs == [n \in 1..Len(createCalls) |-> createCalls[n].gitURL]

\* C15: when Run has returned nil, the URLs Create was called with are, in
\* order, the resolved URLs of the first rule, then of the second and so on,
\* without the empty ones and with every duplicate.
C15_CallOrder == pc = "done" => CalledURLs = ExpectedURLs(Rules)

C15_Witness ==
    /\ pc = "done"
    /\ Len(createCalls) = 3
    /\ \E r \in 1..Len(Rules) :
         Rules[r].URLs # <<>> /\ Rules[r].URLs[1] = Empty

\* a run with a discovered URL and a duplicate
C15_WitnessDuplicate ==
    /\ pc = "done"
    /\ CalledURLs = <<URL_A, URL_A, URL_B>>

\* C16: every Create call for a URL of rule r sees o.Fork equal to r.Fork;
\* the flag is only written at the head of the loop over the rules, never
\* between two URLs of one rule.
C16_ForkPerRule ==
    /\ [](\A n \in 1..Len(createCalls) :
             createCalls[n].Fork = Rules[createCalls[n].rule].Fork)
    /\ [][(pc \in {"url", "create", "function", "reconcile"}) =>
            Fork' = Fork]_vars

C16_Witness ==
    \E n \in 1..(Len(createCalls) - 2) :
        /\ createCalls[n].rule = createCalls[n + 1].rule
        /\ createCalls[n].Fork
        /\ createCalls[n + 1].Fork
        /\ ~createCalls[n + 2].Fork

\* whether the run was started with a commit title
CommitTitleConfigured == CommitTitle = CustomCommit

\* C17: in a run without configured commit title, o.CommitTitle equals
\* o.PullRequestTitle whenever a change function has just returned nil; a
\* configured pull-request title and a configured commit title are never
\* overwritten.
C17_CommitTitleFollows ==
    /\ []((pc = "reconcile" /\ ~CommitTitleConfigured) =>
            (CommitTitle = PullRequestTitle /\ CommitTitle # Empty))
    /\ [][/\ TitleConfigured => PullRequestTitle' = PullRequestTitle
          /\ CommitTitleConfigured => CommitTitle' = CommitTitle]_vars

\* the second repository of a run with neither title configured
C17_Witness ==
    /\ pc = "reconcile"
    /\ Len(createCalls) = 2
    /\ createCalls[1].gitURL # createCalls[2].gitURL
    /\ ~TitleConfigured
    /\ ~CommitTitleConfigured
    /\ CommitTitle = PullRequestTitle

\* a run with both titles configured, after a change function
C17_WitnessConfigured ==
    /\ pc = "reconcile"
    /\ TitleConfigured
    /\ CommitTitleConfigured

\* C18: the title synthesis never indexes outside the pieces of the URL:
\* no run ends in a panic of the change function.
C18_SynthesisNeverFails == pc # "panic"

\* how often the sentinel label occurs in the labels of a filter
SentinelCount(filter) ==
    Cardinality({n \in 1..Len(filter.Labels) : filter.Labels[n] = LabelUpdatebot})

\* C19: the label filter never holds the sentinel label twice; once Create
\* has been called in a run with AutoMerge the filter does not change any
\* more; without AutoMerge no step of Run changes the filter.
C19_EnsureIdempotent ==
    /\ [](SentinelCount(PullRequestFilter) <= 1)
    /\ [][(~AutoMerge \/ createCalls # <<>>) =>
            PullRequestFilter' = PullRequestFilter]_vars

\* the third URL of a run with AutoMerge that started without a filter
C19_Witness ==
    /\ AutoMerge
    /\ Len(createCalls) = 2
    /\ createCalls[1].filter = FilterOf(<<LabelUpdatebot>>)
    /\ createCalls[1].rule # createCalls[2].rule
    /\ pc = "create"
    /\ SentinelCount(PullRequestFilter) = 1

\* the second URL of a run without AutoMerge and without a filter
C19_WitnessDisabled ==
    /\ ~AutoMerge
    /\ Len(createCalls) = 1
    /\ pc = "create"
    /\ PullRequestFilter = NilFilter

\* the fields of a Change, in the order the claim fixes
FieldOrder == <<"Command", "Go", "Regex", "VersionStream">>

\* the first populated field of a change in that order
FirstPopulated(change) ==
    FieldOrder[CHOOSE n \in 1..Len(FieldOrder) :
                  /\ FieldOrder[n] \in change
                  /\ \A m \in 1..(n - 1) : FieldOrder[m] \notin change]

\* C20: a call of ApplyChanges invokes at most one applier: none for a change
\* with no field populated, else the one of the first populated field in the
\* order Command, Go, Regex, VersionStream; the call fails exactly when that
\* applier fails.
C20_OneApplier ==
    [][(pc = "function" /\ k <= Len(FunctionChanges)) =>
         LET change == FunctionChanges[k]
             last == applied'[Len(applied')]
         IN IF change = {}
            THEN applied' = applied /\ pc' = "function"
            ELSE /\ Len(applied') = Len(applied) + 1
                 /\ SubSeq(applied', 1, Len(applied)) = applied
                 /\ last.pos = k
                 /\ last.applier = FirstPopulated(change)
                 /\ (pc' = "failed") <=> ~last.ok
                 /\ (pc' = "function") <=> last.ok]_vars

\* a change with Regex and VersionStream populated was applied, and the
\* change after it as well
C20_Witness ==
    /\ pc = "function"
    /\ FunctionChanges[1] = MultiChange
    /\ Len(applied) = 2
    /\ applied[1] = [pos |-> 1, applier |-> "Regex", ok |-> TRUE]
    /\ applied[2].applier = "VersionStream"

\* the applier of such a change failed
C20_WitnessFailure ==
    /\ pc = "failed"
    /\ err = "CreatePR"
    /\ Function.rule >= 1
    /\ FunctionChanges[1] = MultiChange
    /\ applied = <<[pos |-> 1, applier |-> "Regex", ok |-> FALSE]>>

============================================================================
